---- MODULE Spec2Model ----
(***************************************************************************)
(* Well-Path: goal status engine, progress recorder and query layer.       *)
(*                                                                         *)
(* The relational store (Goal and Progress tables of goals/models.py) is   *)
(* the state; the service functions of goals/services.py are the actions   *)
(* and operators.  Dates are day numbers; the clock now() has the          *)
(* granularity of a day, so a timestamp is the day it was taken on.        *)
(* Float values are integers; the targets used divide 100, so that         *)
(* (total / target) * 100 is exact.                                        *)
(***************************************************************************)
EXTENDS Integers, Sequences, FiniteSets, TLC

\* ------------------------------------------------------------------ bounds
MaxDay == 1
MaxRows == 2
MaxEntries == 3

Users == {"u1", "u2"}
Goals == {"g1", "g2"}
Requests == {"r1", "r2"}
Days == 0..MaxDay
Values == {-1, 5}
Targets == {0, 5}

\* Python's None and a present value of an optional field
None == << >>
Some(x) == << x >>
Val(o) == o[1]

Deadlines == {None, Some(0)}

\* the Category table
Categories == {"c1", "c2"}

\* the Unit table and Category.units: the units a category offers
Units == {"n1", "n2"}

CategoryUnits == [c \in Categories |-> IF c = "c1" THEN Units ELSE {"n2"}]

\* the status_filter labels
StatusLabels == {"active", "completed", "overdue"}

VARIABLES
    today,      \* now().date(); also the timestamp now() returns
    goals,      \* Goal table: goal id -> row
    progress,   \* Progress table: set of rows, each with its primary key
    last,       \* the last service call made and what it returned
    req,        \* concurrent request handlers: their position and locals
    photos,     \* ProgressPhoto table: set of rows
    likes,      \* Like table: set of rows
    comments,   \* Comment table: set of rows
    categories  \* Category table: set of rows

vars == << today, goals, progress, last, req, photos, likes, comments,
          categories >>

\* ----------------------------------------------------------- pure helpers
Min(a, b) == IF a <= b THEN a ELSE b

Max(a, b) == IF a >= b THEN a ELSE b

Abs(a) == IF a >= 0 THEN a ELSE 0 - a

RECURSIVE GCD(_, _)
GCD(a, b) == IF b = 0 THEN a ELSE GCD(b, a % b)

\* the float a / b for b > 0, kept exact: the fraction in lowest terms
Quotient(a, b) ==
    LET k == GCD(Abs(a), b) IN << a \div k, b \div k >>

\* max(q, 0) for such a float
QuotientMax0(q) == IF q[1] < 0 THEN << 0, 1 >> ELSE q

RECURSIVE SumValues(_)
SumValues(S) ==
    IF S = {} THEN 0
    ELSE LET p == CHOOSE x \in S : TRUE
         IN  p.value + SumValues(S \ {p})

\* float division a / b (b # 0), exact for the operands the model uses
FloatDiv(a, b) == IF b > 0 THEN a \div b ELSE (0 - a) \div (0 - b)

\* ------------------------------------------------------------- Goal model
\* goal.progresses.all()
progresses(g) == {p \in progress : p.goal = g}

get_current_value(g) == SumValues(progresses(g))

is_completed(g) == get_current_value(g) >= goals[g].target_value

\* is_overdue without the completion test
is_overdue_any_progress(g) ==
    /\ goals[g].deadline # None
    /\ Val(goals[g].deadline) < today

\* is_overdue with the date comparison turned round
is_overdue_before_deadline(g) ==
    /\ goals[g].deadline # None
    /\ Val(goals[g].deadline) >= today
    /\ ~is_completed(g)

is_overdue(g) ==
    /\ goals[g].deadline # None
    /\ Val(goals[g].deadline) < today
    /\ ~is_completed(g)

status(g) ==
    IF is_completed(g) THEN "completed"
    ELSE IF is_overdue(g) THEN "overdue"
    ELSE "active"

progress_percentage(g) ==
    LET total == get_current_value(g)
    IN  IF goals[g].target_value = 0 THEN 0
        ELSE Min(100, FloatDiv(total * 100, goals[g].target_value))

\* --------------------------------------------------- services: single goal
goal_is_completed(g) == get_current_value(g) >= goals[g].target_value

goal_is_overdue(g) ==
    IF goals[g].deadline = None THEN FALSE
    ELSE Val(goals[g].deadline) < today /\ ~goal_is_completed(g)

\* cv is the instance's current_value attribute: the stored column for an
\* instance loaded from the store, the Sum annotation for a listed one.
goal_get_status(g, cv) ==
    IF cv # None
    THEN IF Val(cv) >= goals[g].target_value THEN "completed"
         ELSE IF goals[g].deadline # None /\ Val(goals[g].deadline) < today
              THEN "overdue"
         ELSE "active"
    ELSE IF goal_is_completed(g) THEN "completed"
         ELSE IF goal_is_overdue(g) THEN "overdue"
         ELSE "active"

goal_progress_percentage(g, cv) ==
    LET total == IF cv # None THEN Val(cv) ELSE get_current_value(g)
    IN  IF goals[g].target_value = 0 THEN 0
        ELSE Min(100, FloatDiv(total * 100, goals[g].target_value))

\* the current_value attribute of Goal.objects.get(id = g)
LoadedCurrentValue(g) == Some(goals[g].current_value)

\* ----------------------------------------------------- services: list query
\* annotate(current_value = Sum('progresses__value')): NULL when no row joins
AnnotatedCurrentValue(g) ==
    IF progresses(g) = {} THEN None ELSE Some(SumValues(progresses(g)))

\* annotate(db_status = Case(When(...), When(...), default = 'active'));
\* a comparison with NULL is not true
db_status(g) ==
    LET cv == AnnotatedCurrentValue(g)
    IN  IF cv # None /\ Val(cv) >= goals[g].target_value THEN "completed"
        ELSE IF /\ goals[g].deadline # None
                /\ Val(goals[g].deadline) < today
                /\ cv # None
                /\ Val(cv) < goals[g].target_value
             THEN "overdue"
        ELSE "active"

\* keeps the active filter from being applied
goal_list_for_user_active_unfiltered(u, f) ==
    {g \in Goals :
        /\ goals[g].user = u
        /\ (f = Some("completed") => db_status(g) = "completed")
        /\ (f = Some("overdue") => db_status(g) = "overdue")}

\* the goals of the returned list; each carries AnnotatedCurrentValue and
\* db_status
goal_list_for_user(u, f) ==
    {g \in Goals :
        /\ goals[g].user = u
        /\ (f = Some("completed") => db_status(g) = "completed")
        /\ (f = Some("overdue") => db_status(g) = "overdue")
        /\ (f = Some("active") => db_status(g) = "active")}

\* status_filter is a string, "active" when the argument is left out
goal_list_public(f) ==
    {g \in Goals :
        /\ goals[g].is_public
        /\ (f = "active" => db_status(g) = "active")
        /\ (f = "completed" => db_status(g) = "completed")
        /\ (f = "overdue" => db_status(g) = "overdue")}

\* Count('goals', filter = Q(...), distinct = True) for one category
CountGoals(c, qs) ==
    Cardinality({g \in qs : goals[g].category = Some(c)})

dashboard_get_category_stats(u) ==
    [c \in Categories |->
        [total |-> CountGoals(c, {g \in Goals : goals[g].user = u}),
         completed |-> CountGoals(c, {g \in Goals :
                          goals[g].user = u /\ goals[g].finished_at # None}),
         active |-> CountGoals(c, {g \in Goals :
                          goals[g].user = u /\ goals[g].finished_at = None})]]

\* ------------------------------------------------------------- calendar
\* A date is its number of days since the epoch, a Monday.
Epoch == [year |-> 2024, month |-> 1, day |-> 1]

IsLeap(y) == (y % 4 = 0 /\ y % 100 # 0) \/ y % 400 = 0

DaysInYear(y) == IF IsLeap(y) THEN 366 ELSE 365

DaysInMonth(y, m) ==
    IF m = 2 THEN (IF IsLeap(y) THEN 29 ELSE 28)
    ELSE IF m \in {4, 6, 9, 11} THEN 30
    ELSE 31

RECURSIVE YearStart(_)
YearStart(y) ==
    IF y = Epoch.year THEN 0 ELSE YearStart(y - 1) + DaysInYear(y - 1)

RECURSIVE MonthOffset(_, _)
MonthOffset(y, m) ==
    IF m = 1 THEN 0 ELSE MonthOffset(y, m - 1) + DaysInMonth(y, m - 1)

\* datetime.date(y, m, d)
date(y, m, d) == YearStart(y) + MonthOffset(y, m) + d - 1

RECURSIVE YearFrom(_, _)
YearFrom(y, n) == IF n < YearStart(y + 1) THEN y ELSE YearFrom(y + 1, n)

RECURSIVE MonthFrom(_, _, _)
MonthFrom(y, m, n) ==
    IF m = 12 \/ n < date(y, m + 1, 1) THEN m ELSE MonthFrom(y, m + 1, n)

\* d.year, d.month, d.weekday() (Monday is 0)
year(n) == YearFrom(Epoch.year, n)
month(n) == MonthFrom(year(n), 1, n)
weekday(n) == n % 7

\* ------------------------------------------------------------ chart data
\* progress_history.first().date, else goal.created_at.date()
start_date(g) ==
    IF progresses(g) # {}
    THEN CHOOSE d \in {p.date : p \in progresses(g)} :
             \A p \in progresses(g) : d <= p.date
    ELSE goals[g].created_at

\* goal.deadline or now().date()
end_date(g) ==
    IF goals[g].deadline # None THEN Val(goals[g].deadline) ELSE today

\* {p.date: p.value for p in progress_history}: one value per date.  Rows of
\* the same date (different users) come in an order order_by("date") leaves
\* open, and the one that comes last stays: any of them.
ProgressMaps(g) ==
    {pm \in [{p.date : p \in progresses(g)} -> {p.value : p \in progresses(g)}] :
        \A d \in DOMAIN pm :
            \E p \in progresses(g) : p.date = d /\ p.value = pm[d]}

\* progress_map.get(d, 0)
MapGet(pm, d) == IF d \in DOMAIN pm THEN pm[d] ELSE 0

\* while day <= last: total += progress_map.get(day, 0); day += 1
\* (the additions of the loop, grouped by halves of the range)
RECURSIVE SumDays(_, _, _)
SumDays(pm, day, lastday) ==
    IF day > lastday THEN 0
    ELSE IF day = lastday THEN MapGet(pm, day)
    ELSE LET mid == (day + lastday) \div 2
         IN  SumDays(pm, day, mid) + SumDays(pm, mid + 1, lastday)

\* running_total after the first n buckets: the sum of their period values,
\* the buckets not yet started adding nothing
RECURSIVE RunningTotal(_, _, _)
RunningTotal(vals, from, to) ==
    IF from > to THEN 0
    ELSE IF from = to THEN (IF vals[from] = None THEN 0 ELSE Val(vals[from]))
    ELSE LET mid == (from + to) \div 2
         IN  RunningTotal(vals, from, mid) + RunningTotal(vals, mid + 1, to)

\* The body of the three generators' loops over the bucket start dates:
\* a bucket that has started (start <= today) appends its period value and the
\* running total, any other appends None twice.  A label is kept as the date
\* it is formatted from.
Buckets(starts, t, period) ==
    LET vals == [i \in 1..Len(starts) |->
                    IF starts[i] <= t THEN Some(period[i]) ELSE None]
    IN  [dates |-> starts,
         values |-> vals,
         cumulative |-> [i \in 1..Len(starts) |->
                            IF starts[i] <= t
                            THEN Some(RunningTotal(vals, 1, i))
                            ELSE None]]

\* all_dates: every day from start_date to end_date
all_dates(start, end) == [i \in 1..(end - start + 1) |-> start + i - 1]

\* a daily generator whose cumulative entry is the day's own value
generate_daily_no_running_total(start, end, t, pm) ==
    LET days == all_dates(start, end)
        vals == [i \in 1..Len(days) |->
                    IF days[i] <= t THEN Some(MapGet(pm, days[i])) ELSE None]
    IN  [grouping |-> "daily", dates |-> days, values |-> vals,
         cumulative |-> vals]

generate_daily_chart_data(start, end, t, pm) ==
    LET days == all_dates(start, end)
    IN  [grouping |-> "daily"]
          @@ Buckets(days, t, [i \in 1..Len(days) |-> MapGet(pm, days[i])])

\* the Mondays from the week of start_date up to end_date
week_starts(start, end) ==
    LET week_start == start - weekday(start)
    IN  [i \in 1..((end - week_start) \div 7 + 1) |-> week_start + 7 * (i - 1)]

\* a weekly generator that appends the running total before adding the week
generate_weekly_appends_before_adding(start, end, t, pm) ==
    LET weeks == week_starts(start, end)
        week_progress == [i \in 1..Len(weeks) |->
            SumDays(pm, Max(weeks[i], start), Min(Min(weeks[i] + 6, end), t))]
        b == Buckets(weeks, t, week_progress)
    IN  [grouping |-> "weekly", dates |-> b.dates, values |-> b.values,
         cumulative |-> [i \in 1..Len(weeks) |->
                            IF weeks[i] <= t
                            THEN Some(RunningTotal(b.values, 1, i - 1))
                            ELSE None]]

generate_weekly_chart_data(start, end, t, pm) ==
    LET weeks == week_starts(start, end)
        week_progress == [i \in 1..Len(weeks) |->
            SumDays(pm, Max(weeks[i], start), Min(Min(weeks[i] + 6, end), t))]
    IN  [grouping |-> "weekly"] @@ Buckets(weeks, t, week_progress)

\* the first day of the month after current_month's
NextMonth(current_month) ==
    IF month(current_month) = 12
    THEN date(year(current_month) + 1, 1, 1)
    ELSE date(year(current_month), month(current_month) + 1, 1)

\* the first days of the months from current_month up to end_date
RECURSIVE month_starts(_, _)
month_starts(current_month, end) ==
    IF current_month > end THEN << >>
    ELSE << current_month >> \o month_starts(NextMonth(current_month), end)

\* a monthly generator that gives values to the finished months only
generate_monthly_finished_months_only(start, end, t, pm) ==
    LET months == month_starts(date(year(start), month(start), 1), end)
        month_progress == [i \in 1..Len(months) |->
            SumDays(pm, Max(months[i], start),
                    Min(Min(NextMonth(months[i]) - 1, end), t))]
        b == Buckets([i \in 1..Len(months) |-> NextMonth(months[i]) - 1], t,
                     month_progress)
    IN  [grouping |-> "monthly", dates |-> months, values |-> b.values,
         cumulative |-> b.cumulative]

generate_monthly_chart_data(start, end, t, pm) ==
    LET months == month_starts(date(year(start), month(start), 1), end)
        month_progress == [i \in 1..Len(months) |->
            SumDays(pm, Max(months[i], start),
                    Min(Min(NextMonth(months[i]) - 1, end), t))]
    IN  [grouping |-> "monthly"] @@ Buckets(months, t, month_progress)

\* total_days = (end_date - start_date).days + 1
total_days(g) == end_date(g) - start_date(g) + 1

\* days_passed counted without the first day
days_passed_exclusive(g) ==
    LET last_date == Min(today, end_date(g))
    IN  IF last_date >= start_date(g) THEN last_date - start_date(g) ELSE 1

\* days_passed
days_passed(g) ==
    LET last_date == Min(today, end_date(g))
    IN  IF last_date >= start_date(g) THEN last_date - start_date(g) + 1 ELSE 1

\* days_remaining
days_remaining(g) ==
    IF goals[g].deadline # None /\ today <= Val(goals[g].deadline)
    THEN Val(goals[g].deadline) - today + 1
    ELSE 0

avg_per_day(g) ==
    IF days_passed(g) > 0
    THEN Quotient(get_current_value(g), days_passed(g))
    ELSE << 0, 1 >>

needed_per_day(g) ==
    LET total_progress == get_current_value(g)
    IN  IF days_remaining(g) > 0
        THEN QuotientMax0(Quotient(goals[g].target_value - total_progress,
                                   days_remaining(g)))
        ELSE IF goals[g].target_value > total_progress
        THEN << goals[g].target_value - total_progress, 1 >>
        ELSE << 0, 1 >>

\* the grouping chosen with < in place of <=
chart_data_exclusive_limits(g, pm) ==
    (IF total_days(g) < 60
     THEN generate_daily_chart_data(start_date(g), end_date(g), today, pm)
     ELSE IF total_days(g) < 365
     THEN generate_weekly_chart_data(start_date(g), end_date(g), today, pm)
     ELSE generate_monthly_chart_data(start_date(g), end_date(g), today, pm))
      @@ [target |-> goals[g].target_value,
          avg_per_day |-> avg_per_day(g),
          needed_per_day |-> needed_per_day(g)]

\* the dictionary goal_get_chart_data returns, given the progress map built
\* (the unit name is left out: the model has no Unit table)
chart_data(g, pm) ==
    (IF total_days(g) <= 60
     THEN generate_daily_chart_data(start_date(g), end_date(g), today, pm)
     ELSE IF total_days(g) <= 365
     THEN generate_weekly_chart_data(start_date(g), end_date(g), today, pm)
     ELSE generate_monthly_chart_data(start_date(g), end_date(g), today, pm))
      @@ [target |-> goals[g].target_value,
          avg_per_day |-> avg_per_day(g),
          needed_per_day |-> needed_per_day(g)]

\* ------------------------------------------------------- Progress storage
SameKey(p, u, g, d) == p.user = u /\ p.goal = g /\ p.date = d

\* a lookup that never finds the row (create in place of get_or_create)
ProgressLookupMiss(u, g, d) == {}

\* Progress.objects.get(user, goal, date): the matching rows
ProgressLookup(u, g, d) == {p \in progress : SameKey(p, u, g, d)}

\* a Progress table without the unique constraint
NoUniqueConstraint(u, g, d) == FALSE

\* UniqueConstraint(fields = [user, goal, date]): would this insert violate it
UniqueViolation(u, g, d) == \E p \in progress : SameKey(p, u, g, d)

\* The primary key of an inserted row.  The code never reads its value, only
\* its identity: a fresh token, here the key and an ordinal among its rows.
NewPk(u, g, d) == << u, g, d, Cardinality(ProgressLookup(u, g, d)) + 1 >>

NewRow(u, g, d, v) ==
    [pk |-> NewPk(u, g, d), user |-> u, goal |-> g, date |-> d, value |-> v]

\* a save that adds the submitted value to the stored one
SaveValueAdd(pk, v) ==
    {IF p.pk = pk THEN [p EXCEPT !.value = p.value + v] ELSE p : p \in progress}

\* progress.value = value; progress.save(): UPDATE ... WHERE id = pk
SaveValue(pk, v) ==
    {IF p.pk = pk THEN [p EXCEPT !.value = v] ELSE p : p \in progress}

\* the id of a row inserted into table S: one more than the largest id in it
NextId(S) ==
    IF S = {} THEN 1
    ELSE 1 + CHOOSE n \in {r.pk : r \in S} : \A r \in S : r.pk <= n

\* max_size = 5 * 1024 * 1024
max_size == 5 * 1024 * 1024

\* an uploaded file: its size in bytes and its content type, the text before
\* the first "/" and the text after it
ImageFile == [size |-> max_size, content_type |-> << "image", "png" >>]

UploadedFiles ==
    {ImageFile, [ImageFile EXCEPT !.size = max_size + 1],
     [ImageFile EXCEPT !.content_type = << "text", "plain" >>]}

\* ProgressPhoto.validate_image(image): does it raise ValidationError
validate_image(image) ==
    \/ image.size > max_size
    \/ image.content_type[1] # "image"

\* for img in images: ProgressPhoto.objects.create(progress = progress,
\* image = img).  objects.create saves the row; field validators run only in
\* full_clean(), which create() and save() do not call.
AttachPhotos(pk, images) ==
    photos \cup
      {[pk |-> NextId(photos) + i - 1, progress |-> pk,
        size |-> images[i].size, content_type |-> images[i].content_type] :
          i \in 1..Len(images)}

\* what the last service call was and what it returned: created is the flag of
\* progress_create_or_update, ret the result of progress_check_goal_completion,
\* raised whether an exception reached the caller
NoCall ==
    [op |-> "none", user |-> "-", goal |-> "-", date |-> 0, value |-> 0,
     created |-> FALSE, ret |-> FALSE, raised |-> FALSE]

RecordCall(u, g, d, v, created, raised) ==
    [op |-> "record", user |-> u, goal |-> g, date |-> d, value |-> v,
     created |-> created, ret |-> FALSE, raised |-> raised]

CheckCall(g, ret) ==
    [op |-> "check", user |-> "-", goal |-> g, date |-> 0, value |-> 0,
     created |-> FALSE, ret |-> ret, raised |-> FALSE]

ChartCall(g, pm, chart) ==
    [op |-> "chart", goal |-> g, progress_map |-> pm, chart |-> chart]

\* a request handler that has not started: no arguments, no loaded objects
Idle ==
    [pc |-> "idle", user |-> "-", goal |-> "-", date |-> 0, value |-> 0,
     finished_at |-> None, pk |-> None, created |-> FALSE, retried |-> FALSE,
     ret |-> FALSE, raised |-> FALSE]

\* ------------------------------------------------------------------- Init
GoalRows ==
    {[user |-> "u1", category |-> Some("c1"), unit |-> Some("n1"),
      is_public |-> TRUE, created_at |-> 0, target_value |-> t, deadline |-> dl,
      current_value |-> 0, finished_at |-> None] :
        t \in Targets, dl \in Deadlines}

\* the second goal: target 10, deadline on day 0
OtherGoal ==
    [user |-> "u1", category |-> Some("c1"), unit |-> Some("n1"),
     is_public |-> TRUE, created_at |-> 0, target_value |-> 10,
     deadline |-> Some(0),
     current_value |-> 0, finished_at |-> None]

Init ==
    /\ today = 0
    /\ \E row \in GoalRows :
          goals = [g \in Goals |-> IF g = "g1" THEN row ELSE OtherGoal]
    /\ progress = {}
    /\ last = NoCall
    /\ req = [r \in Requests |-> Idle]
    /\ photos = {}
    /\ likes = {}
    /\ comments = {}
    /\ categories = {}

\* ---------------------------------------------------- sequential service calls
\* the date argument: None selects now().date()
DateArg(dopt) == IF dopt = None THEN today ELSE Val(dopt)

\* One call, run to its end with no other request in between.
\* Progress.objects.get_or_create: get; on DoesNotExist create; on
\* IntegrityError get again, and re-raise when that finds nothing.
\* images is the list of uploaded files, None or empty for no upload.
progress_create_or_update(u, g, v, dopt, images) ==
    LET d == DateArg(dopt)
        found == ProgressLookup(u, g, d)
    IN  /\ IF Cardinality(found) > 1
           THEN \* MultipleObjectsReturned
                /\ progress' = progress
                /\ photos' = photos
                /\ last' = RecordCall(u, g, d, v, FALSE, TRUE)
           ELSE IF found # {}
           THEN /\ Cardinality(photos) + Len(images) <= MaxRows
                /\ progress' = SaveValue((CHOOSE p \in found : TRUE).pk, v)
                /\ photos' = AttachPhotos((CHOOSE p \in found : TRUE).pk, images)
                /\ last' = RecordCall(u, g, d, v, FALSE, FALSE)
           ELSE IF UniqueViolation(u, g, d)
           THEN \* IntegrityError, and the second get finds nothing either
                /\ progress' = progress
                /\ photos' = photos
                /\ last' = RecordCall(u, g, d, v, FALSE, TRUE)
           ELSE /\ Cardinality(progress) < MaxRows
                /\ Cardinality(photos) + Len(images) <= MaxRows
                /\ progress' = progress \cup {NewRow(u, g, d, v)}
                /\ photos' = AttachPhotos(NewPk(u, g, d), images)
                /\ last' = RecordCall(u, g, d, v, TRUE, FALSE)
        /\ UNCHANGED << today, goals, req, likes, comments, categories >>

\* a completion check that stamps finished_at whenever the goal is completed
progress_check_stamps_again(g) ==
    /\ IF goal_is_completed(g)
       THEN /\ goals' = [goals EXCEPT ![g].finished_at = Some(today)]
            /\ last' = CheckCall(g, TRUE)
       ELSE /\ goals' = goals
            /\ last' = CheckCall(g, FALSE)
    /\ UNCHANGED << today, progress, req, photos, likes, comments, categories >>

\* a completion check that clears finished_at when the goal is not completed
progress_check_reverts(g) ==
    /\ IF goal_is_completed(g) /\ goals[g].finished_at = None
       THEN /\ goals' = [goals EXCEPT ![g].finished_at = Some(today)]
            /\ last' = CheckCall(g, TRUE)
       ELSE /\ goals' = [goals EXCEPT ![g].finished_at =
                           IF goal_is_completed(g) THEN @ ELSE None]
            /\ last' = CheckCall(g, FALSE)
    /\ UNCHANGED << today, progress, req, photos, likes, comments, categories >>

\* called on a goal instance just loaded from the store
progress_check_goal_completion(g) ==
    /\ IF goal_is_completed(g) /\ goals[g].finished_at = None
       THEN /\ goals' = [goals EXCEPT ![g].finished_at = Some(today)]
            /\ last' = CheckCall(g, TRUE)
       ELSE /\ goals' = goals
            /\ last' = CheckCall(g, FALSE)
    /\ UNCHANGED << today, progress, req, photos, likes, comments, categories >>

\* the date changes
Tick ==
    /\ today < MaxDay
    /\ today' = today + 1
    /\ UNCHANGED << goals, progress, last, req, photos, likes, comments, categories >>

\* progress is recorded for today or backfilled for an earlier day
DateArgs == {None} \cup {Some(d) : d \in 0..today}

Next ==
    \/ \E u \in Users, g \in Goals, v \in Values, dopt \in DateArgs :
            progress_create_or_update(u, g, v, dopt, None)
    \/ \E g \in Goals : progress_check_goal_completion(g)
    \/ Tick

Spec == Init /\ [][Next]_vars

\* ------------------------------------------------------ progress with photos
\* the images argument: no list, one file, or an image and a second file
ImageLists ==
    {None} \cup {<< f >> : f \in UploadedFiles}
           \cup {<< ImageFile, f >> : f \in UploadedFiles}

\* every owner records progress on the own goals, for today, with files
NextPhotos ==
    \/ \E g \in Goals, v \in Values, images \in ImageLists :
            progress_create_or_update(goals[g].user, g, v, None, images)
    \/ Tick

SpecPhotos == Init /\ [][NextPhotos]_vars

\* ------------------------------------------------------- request handlers
\* goals/views.py and social/views.py, each handler called with a request and
\* run to its end.  request.user is a logged-in user or AnonymousUser.
AnonymousUser == "anonymous"

RequestUsers == Users \cup {AnonymousUser}

Methods == {"GET", "POST"}

\* ids a request may name: those of the goals and one that was never stored
GoalIds == Goals \cup {"g0"}

\* the classes social/models.py defines
SocialModels == {"Like", "Comment"}

\* what the last request was and how it ended: outcome is the response or the
\* exception, rows what goal.delete() reports as the number of rows deleted
ViewCall(op, method, u, g, outcome) ==
    [op |-> op, method |-> method, user |-> u, goal |-> g, outcome |-> outcome,
     rows |-> 0, liked |-> None, likes_count |-> None]

\* on_delete = CASCADE: the rows that go with goal g
CascadeProgress(g) == {p \in progress : p.goal = g}

CascadePhotos(g) ==
    {ph \in photos : \E p \in CascadeProgress(g) : ph.progress = p.pk}

CascadeLikes(g) == {l \in likes : l.goal = g}

CascadeComments(g) == {c \in comments : c.goal = g}

\* delete_goal that leaves out the owner test
delete_goal_by_anyone(u, goal_id, method) ==
    /\ IF method # "POST"
       THEN /\ last' = ViewCall("delete", method, u, goal_id, "redirect")
            /\ UNCHANGED << goals, progress, photos, likes, comments >>
       ELSE IF goal_id \notin DOMAIN goals
       THEN /\ last' = ViewCall("delete", method, u, goal_id, "not found")
            /\ UNCHANGED << goals, progress, photos, likes, comments >>
       ELSE /\ goals' = [g \in DOMAIN goals \ {goal_id} |-> goals[g]]
            /\ progress' = progress \ CascadeProgress(goal_id)
            /\ photos' = photos \ CascadePhotos(goal_id)
            /\ likes' = likes \ CascadeLikes(goal_id)
            /\ comments' = comments \ CascadeComments(goal_id)
            /\ last' = [ViewCall("delete", method, u, goal_id, "deleted")
                          EXCEPT !.rows = 1
                            + Cardinality(CascadeProgress(goal_id))
                            + Cardinality(CascadePhotos(goal_id))
                            + Cardinality(CascadeLikes(goal_id))
                            + Cardinality(CascadeComments(goal_id))]
    /\ UNCHANGED << today, req, categories >>

delete_goal(u, goal_id, method) ==
    /\ IF method # "POST"
       THEN /\ last' = ViewCall("delete", method, u, goal_id, "redirect")
            /\ UNCHANGED << goals, progress, photos, likes, comments >>
       ELSE IF goal_id \notin DOMAIN goals
       THEN /\ last' = ViewCall("delete", method, u, goal_id, "not found")
            /\ UNCHANGED << goals, progress, photos, likes, comments >>
       ELSE IF goals[goal_id].user # u
       THEN /\ last' = ViewCall("delete", method, u, goal_id, "no permission")
            /\ UNCHANGED << goals, progress, photos, likes, comments >>
       ELSE /\ goals' = [g \in DOMAIN goals \ {goal_id} |-> goals[g]]
            /\ progress' = progress \ CascadeProgress(goal_id)
            /\ photos' = photos \ CascadePhotos(goal_id)
            /\ likes' = likes \ CascadeLikes(goal_id)
            /\ comments' = comments \ CascadeComments(goal_id)
            /\ last' = [ViewCall("delete", method, u, goal_id, "deleted")
                          EXCEPT !.rows = 1
                            + Cardinality(CascadeProgress(goal_id))
                            + Cardinality(CascadePhotos(goal_id))
                            + Cardinality(CascadeLikes(goal_id))
                            + Cardinality(CascadeComments(goal_id))]
    /\ UNCHANGED << today, req, categories >>

\* The handler of a progress submission.  request.user is a logged-in user.
\* A goal that reached its target is stamped whether or not it was stamped
\* before; goal.completed is no column, goal.save() writes the loaded row.
add_progress(u, goal_id, method, value) ==
    LET found == ProgressLookup(u, goal_id, today)
    IN  /\ IF method # "POST"
           THEN /\ last' = ViewCall("add_progress", method, u, goal_id, "redirect")
                /\ UNCHANGED << goals, progress >>
           ELSE IF goal_id \notin DOMAIN goals
           THEN /\ last' = ViewCall("add_progress", method, u, goal_id,
                                    "DoesNotExist")
                /\ UNCHANGED << goals, progress >>
           ELSE /\ found = {} => Cardinality(progress) < MaxRows
                /\ progress' =
                      IF found = {}
                      THEN progress \cup {NewRow(u, goal_id, today, value)}
                      ELSE SaveValue((CHOOSE p \in found : TRUE).pk, value)
                /\ goals' =
                      IF SumValues({p \in progress' : p.goal = goal_id})
                            >= goals[goal_id].target_value
                      THEN [goals EXCEPT ![goal_id].finished_at = Some(today)]
                      ELSE goals
                /\ last' = ViewCall("add_progress", method, u, goal_id, "saved")
        /\ UNCHANGED << today, req, photos, likes, comments, categories >>

\* like_goal: the handler's first statement, from .models import Goal, names a
\* class social/models.py does not define, so it raises ImportError; what
\* follows it toggles the user's like and reports the goal's likes_count.
like_goal(u, goal_id) ==
    /\ IF "Goal" \notin SocialModels
       THEN /\ last' = ViewCall("like", "POST", u, goal_id, "ImportError")
            /\ likes' = likes
       ELSE IF goal_id \notin DOMAIN goals
       THEN /\ last' = ViewCall("like", "POST", u, goal_id, "not found")
            /\ likes' = likes
       ELSE /\ likes' =
                  IF \E l \in likes : l.user = u /\ l.goal = goal_id
                  THEN likes \ {CHOOSE l \in likes :
                                    l.user = u /\ l.goal = goal_id}
                  ELSE likes \cup {[pk |-> NextId(likes), user |-> u,
                                     goal |-> goal_id]}
            /\ last' = [ViewCall("like", "POST", u, goal_id, "ok")
                          EXCEPT !.liked = Some(\E l \in likes' :
                                    l.user = u /\ l.goal = goal_id),
                                 !.likes_count = Some(Cardinality(
                                    {l \in likes' : l.goal = goal_id}))]
    /\ UNCHANGED << today, goals, progress, req, photos, comments, categories >>

\* comment_goal, POST: a comment with a text is stored
comment_goal(u, goal_id, text) ==
    /\ IF goal_id \notin DOMAIN goals
       THEN /\ last' = ViewCall("comment", "POST", u, goal_id, "not found")
            /\ comments' = comments
       ELSE IF text = ""
       THEN /\ last' = ViewCall("comment", "POST", u, goal_id, "text required")
            /\ comments' = comments
       ELSE /\ Cardinality(comments) < MaxRows
            /\ comments' = comments \cup
                  {[pk |-> NextId(comments), user |-> u, goal |-> goal_id,
                    text |-> text]}
            /\ last' = ViewCall("comment", "POST", u, goal_id, "created")
    /\ UNCHANGED << today, goals, progress, req, photos, likes, categories >>

\* The store the deleting and the social handlers start from: the first goal
\* is u1's, the second u2's; users have liked goals (Like rows are unique per
\* user and goal) and the owner of the first goal may have recorded progress
\* with a photo.
LikeRows ==
    {[pk |-> 1, user |-> "u2", goal |-> "g1"],
     [pk |-> 2, user |-> "u1", goal |-> "g1"],
     [pk |-> 3, user |-> "u1", goal |-> "g2"]}

StoredProgress ==
    [pk |-> << "u1", "g1", 0, 1 >>, user |-> "u1", goal |-> "g1", date |-> 0,
     value |-> 5]

StoredPhoto ==
    [pk |-> 1, progress |-> StoredProgress.pk, size |-> ImageFile.size,
     content_type |-> ImageFile.content_type]

InitViews ==
    /\ today = 0
    /\ goals = [g \in Goals |-> [OtherGoal EXCEPT !.user =
                                    IF g = "g1" THEN "u1" ELSE "u2"]]
    /\ \E stored \in BOOLEAN, withPhoto \in BOOLEAN :
          /\ progress = IF stored THEN {StoredProgress} ELSE {}
          /\ photos = IF stored /\ withPhoto THEN {StoredPhoto} ELSE {}
    /\ likes \in SUBSET LikeRows
    /\ comments = {}
    /\ categories = {}
    /\ last = NoCall
    /\ req = [r \in Requests |-> Idle]

NextViews ==
    \/ \E u \in RequestUsers, g \in GoalIds, method \in Methods :
            delete_goal(u, g, method)
    \/ \E u \in Users, g \in GoalIds : like_goal(u, g)
    \/ \E u \in Users, g \in GoalIds, text \in {"", "well done"} :
            comment_goal(u, g, text)

SpecViews == InitViews /\ [][NextViews]_vars

\* ------------------------------------------------------------ goal forms
\* The POST data of a goal form: text_given stands for title and description
\* (both required), the other fields hold the submitted value or None when
\* the key is absent.
FormData ==
    [text_given : {TRUE},
     category : {None, Some("c2")},
     unit : {Some(n) : n \in Units},
     target_value : {Some(5)},
     deadline : {Some(d) : d \in {-1, 0, 730, 731}},
     is_public : {FALSE}]

\* the deadline of the data, submitted as a number of days from today
SubmittedDeadline(data) ==
    IF data.deadline = None THEN None ELSE Some(today + Val(data.deadline))

\* clean_deadline with the limits left out
clean_deadline_any_date(deadline) == FALSE

\* GoalForm.clean_deadline: does it raise ValidationError
clean_deadline(deadline) ==
    LET max_deadline == today + 730
    IN  \/ deadline > max_deadline
        \/ deadline < today

\* GoalForm.__init__: the queryset of the unit field.  instance is the goal
\* being edited, None for a new goal.
UnitQueryset(data, instance) ==
    IF data.category # None THEN CategoryUnits[Val(data.category)]
    ELSE IF instance # None /\ goals[Val(instance)].category # None
    THEN CategoryUnits[Val(goals[Val(instance)].category)]
    ELSE {}

\* the fields of GoalForm that fail validation; values are the values the
\* fields are cleaned from, data the POST data
GoalForm_errors(values, data, instance) ==
    {f \in {"title"} : ~values.text_given}
      \cup {f \in {"category"} : values.category = None}
      \cup {f \in {"unit"} :
               \/ values.unit = None
               \/ Val(values.unit) \notin UnitQueryset(data, instance)}
      \cup {f \in {"target_value"} : values.target_value = None}
      \cup {f \in {"deadline"} :
               \/ values.deadline = None
               \/ clean_deadline(Val(values.deadline))}

\* a GoalEditForm whose category and unit fields are not disabled
GoalEditForm_fields_enabled(data, g) ==
    [data EXCEPT !.deadline = SubmittedDeadline(data)]

\* GoalEditForm: a disabled field is cleaned from the instance's value
\* whatever was submitted
GoalEditForm_values(data, g) ==
    [data EXCEPT !.deadline = SubmittedDeadline(data),
                 !.category = goals[g].category,
                 !.unit = goals[g].unit]

\* what the last form request was: its data, the day it was made on, the
\* fields that failed validation
FormCall(op, method, u, g, data, outcome, errors) ==
    [op |-> op, method |-> method, user |-> u, goal |-> g, data |-> data,
     date |-> today, outcome |-> outcome, errors |-> errors]

NoData == [f \in {} |-> None]

\* create_goal: no login is required; saving a goal whose user is
\* AnonymousUser raises ValueError
create_goal(u, method, data) ==
    LET values == [data EXCEPT !.deadline = SubmittedDeadline(data)]
        errors == GoalForm_errors(values, data, None)
        id == CHOOSE g \in Goals : g \notin DOMAIN goals
    IN  /\ IF method # "POST"
           THEN /\ last' = FormCall("create", method, u, "-", NoData, "form", {})
                /\ goals' = goals
           ELSE IF errors # {}
           THEN /\ last' = FormCall("create", method, u, "-", data, "invalid",
                                    errors)
                /\ goals' = goals
           ELSE IF u = AnonymousUser
           THEN /\ last' = FormCall("create", method, u, "-", data,
                                    "ValueError", {})
                /\ goals' = goals
           ELSE /\ DOMAIN goals # Goals
                /\ goals' = [g \in DOMAIN goals \cup {id} |->
                      IF g # id THEN goals[g]
                      ELSE [user |-> u, category |-> values.category,
                            unit |-> values.unit,
                            is_public |-> values.is_public,
                            created_at |-> today,
                            target_value |-> Val(values.target_value),
                            deadline |-> values.deadline,
                            current_value |-> 0, finished_at |-> None]]
                /\ last' = FormCall("create", method, u, id, data, "saved", {})
        /\ UNCHANGED << today, progress, req, photos, likes, comments,
                        categories >>

\* edit_goal: login required, then the goal is looked up, then the owner test
edit_goal(u, goal_id, method, data) ==
    LET values == GoalEditForm_values(data, goal_id)
        errors == GoalForm_errors(values, data, Some(goal_id))
    IN  /\ IF u = AnonymousUser
           THEN /\ last' = FormCall("edit", method, u, goal_id, NoData,
                                    "login", {})
                /\ goals' = goals
           ELSE IF goal_id \notin DOMAIN goals
           THEN /\ last' = FormCall("edit", method, u, goal_id, NoData,
                                    "not found", {})
                /\ goals' = goals
           ELSE IF goals[goal_id].user # u
           THEN /\ last' = FormCall("edit", method, u, goal_id, NoData,
                                    "no permission", {})
                /\ goals' = goals
           ELSE IF method # "POST"
           THEN /\ last' = FormCall("edit", method, u, goal_id, NoData,
                                    "form", {})
                /\ goals' = goals
           ELSE IF errors # {}
           THEN /\ last' = FormCall("edit", method, u, goal_id, data,
                                    "invalid", errors)
                /\ goals' = goals
           ELSE /\ goals' = [goals EXCEPT ![goal_id] =
                      [@ EXCEPT !.category = values.category,
                                !.unit = values.unit,
                                !.is_public = values.is_public,
                                !.target_value = Val(values.target_value),
                                !.deadline = values.deadline]]
                /\ last' = FormCall("edit", method, u, goal_id, data,
                                    "saved", {})
        /\ UNCHANGED << today, progress, req, photos, likes, comments,
                        categories >>

\* the store the forms start from: one goal of u1, in category c1 with the
\* unit both categories offer
InitForms ==
    /\ today = 0
    /\ goals = [g \in {"g1"} |-> [OtherGoal EXCEPT !.unit = Some("n2")]]
    /\ progress = {}
    /\ last = NoCall
    /\ req = [r \in Requests |-> Idle]
    /\ photos = {}
    /\ likes = {}
    /\ comments = {}
    /\ categories = {}

\* the data a request of the method carries
RequestData(method) ==
    IF method = "POST" THEN FormData ELSE {NoData}

NextForms ==
    \/ \E u \in RequestUsers, method \in Methods :
          \E data \in RequestData(method) : create_goal(u, method, data)
    \/ \E u \in RequestUsers, g \in GoalIds, method \in Methods :
          \E data \in RequestData(method) : edit_goal(u, g, method, data)
    \/ Tick

SpecForms == InitForms /\ [][NextForms]_vars

\* --------------------------------------------------------- Category slugs
\* Names and slugs are sequences of characters.
Alphabet == {"R", "r", "u", "n", "1", " ", "-", "_", "!", "sz"}

\* the characters NFKD normalisation and the ascii encoding keep; "sz" stands
\* for the letter sharp s, which is outside ASCII and has no decomposition
AsciiChars == Alphabet \ {"sz"}

\* \w, \s and the separators of slugify's second substitution
WordChars == {"R", "r", "u", "n", "1", "_"}

SpaceChars == {" "}

Separators == SpaceChars \cup {"-"}

\* str.lower
Lower(ch) == IF ch = "R" THEN "r" ELSE ch

RECURSIVE Keep(_, _)
\* the characters of s that are in chars, in order
Keep(s, chars) ==
    IF s = << >> THEN << >>
    ELSE IF Head(s) \in chars THEN << Head(s) >> \o Keep(Tail(s), chars)
    ELSE Keep(Tail(s), chars)

RECURSIVE Collapse(_, _)
\* re.sub(r"[-\s]+", "-", s): every run of separators becomes one hyphen;
\* inRun tells that the character before s was a separator
Collapse(s, inRun) ==
    IF s = << >> THEN << >>
    ELSE IF Head(s) \in Separators
    THEN (IF inRun THEN << >> ELSE << "-" >>) \o Collapse(Tail(s), TRUE)
    ELSE << Head(s) >> \o Collapse(Tail(s), FALSE)

RECURSIVE LStrip(_, _)
LStrip(s, chars) ==
    IF s # << >> /\ Head(s) \in chars THEN LStrip(Tail(s), chars) ELSE s

RECURSIVE RStrip(_, _)
RStrip(s, chars) ==
    IF s # << >> /\ s[Len(s)] \in chars
    THEN RStrip(SubSeq(s, 1, Len(s) - 1), chars)
    ELSE s

\* django.utils.text.slugify without allow_unicode
slugify(value) ==
    LET ascii == Keep(value, AsciiChars)
        lowered == [i \in DOMAIN ascii |-> Lower(ascii[i])]
        kept == Keep(lowered, WordChars \cup Separators)
    IN  RStrip(LStrip(Collapse(kept, FALSE), {"-", "_"}), {"-", "_"})

DigitChar == << "0", "1", "2", "3", "4", "5", "6", "7", "8", "9" >>

RECURSIVE Decimal(_)
\* str(n) of the f-string, n >= 0
Decimal(n) ==
    IF n < 10 THEN << DigitChar[n + 1] >>
    ELSE Decimal(n \div 10) \o << DigitChar[(n % 10) + 1] >>

\* a queryset that does not exclude the instance itself
exclude_nothing(id) == categories

\* Category.objects ... .exclude(id=self.id); id is None for a new instance
exclude_self(id) == {c \in categories : id = None \/ c.pk # Val(id)}

RECURSIVE unique_slug(_, _, _, _)
\* the while loop of Category.save: the slug it ends with and its counter
unique_slug(base_slug, slug, counter, qs) ==
    IF \E c \in qs : c.slug = slug
    THEN unique_slug(base_slug, base_slug \o << "-" >> \o Decimal(counter),
                     counter + 1, qs)
    ELSE [slug |-> slug, counter |-> counter]

\* the names and the slugs given to the saves
CategoryNames ==
    { << "R", "u", "n" >>, << " ", "-", "r", "u", "n", "!", "_" >>,
      << "R", "u", "n", " ", "-", "1" >>, << "sz", "!" >> }

GivenSlugs == { << >>, << "r", "u", "n", "-", "2" >> }

CategoryCall(id, cat, slug, outcome, counter) ==
    [op |-> "save", id |-> id, cat |-> cat, slug |-> slug,
     outcome |-> outcome, counter |-> counter]

\* Category.save of an instance with the id (None: a new one), the name and
\* the slug; the unique constraints of cat and slug raise IntegrityError
Category_save(id, cat, slug) ==
    LET found == unique_slug(slugify(cat), slugify(cat), 1, exclude_self(id))
        self_slug == IF slug = << >> THEN found.slug ELSE slug
        counter == IF slug = << >> THEN found.counter ELSE 1
        others == {c \in categories : id = None \/ c.pk # Val(id)}
        pk == IF id = None THEN NextId(categories) ELSE Val(id)
    IN  /\ id = None => Cardinality(categories) <= MaxRows
        /\ id # None => \E c \in categories : c.pk = Val(id)
        /\ IF \E c \in others : c.cat = cat \/ c.slug = self_slug
           THEN /\ categories' = categories
                /\ last' = CategoryCall(id, cat, slug, "IntegrityError",
                                        counter)
           ELSE /\ categories' = others
                      \cup {[pk |-> pk, cat |-> cat, slug |-> self_slug]}
                /\ last' = CategoryCall(Some(pk), cat, slug, "saved", counter)
        /\ UNCHANGED << today, goals, progress, req, photos, likes, comments >>

InitTaxonomy ==
    /\ today = 0
    /\ goals = [g \in {} |-> OtherGoal]
    /\ progress = {}
    /\ last = NoCall
    /\ req = [r \in Requests |-> Idle]
    /\ photos = {}
    /\ likes = {}
    /\ comments = {}
    /\ categories = {}

\* a new category is saved, or a stored one is saved again with a name and
\* with its slug kept or cleared
NextTaxonomy ==
    \/ \E cat \in CategoryNames, slug \in GivenSlugs :
            Category_save(None, cat, slug)
    \/ \E c \in categories, cat \in CategoryNames :
          \E slug \in {<< >>, c.slug} :
              Category_save(Some(c.pk), cat, slug)

SpecTaxonomy == InitTaxonomy /\ [][NextTaxonomy]_vars

\* ------------------------------------------------- progress submissions
\* users submit progress to the two goals of Init through the handler
NextSubmit ==
    \/ \E u \in Users, g \in GoalIds, method \in Methods, v \in Values :
            add_progress(u, g, method, v)
    \/ Tick

SpecSubmit == Init /\ [][NextSubmit]_vars

\* ------------------------------------------------- stores for the list queries
\* goals of either user, public or private, in either category or in none;
\* every owner records progress on the own goals, for today
GoalCategories == {None} \cup {Some(c) : c \in Categories}

InitList ==
    /\ today = 0
    /\ \E row \in GoalRows, u \in Users, c \in GoalCategories,
          pub1 \in BOOLEAN, pub2 \in BOOLEAN :
          goals = [g \in Goals |->
                     IF g = "g1"
                     THEN [row EXCEPT !.is_public = pub1]
                     ELSE [OtherGoal EXCEPT !.user = u, !.category = c,
                                            !.is_public = pub2]]
    /\ progress = {}
    /\ last = NoCall
    /\ req = [r \in Requests |-> Idle]
    /\ photos = {}
    /\ likes = {}
    /\ comments = {}
    /\ categories = {}

NextList ==
    \/ \E g \in Goals, v \in Values :
            progress_create_or_update(goals[g].user, g, v, None, None)
    \/ \E g \in Goals : progress_check_goal_completion(g)
    \/ Tick

SpecList == InitList /\ [][NextList]_vars

\* ----------------------------------------------------- stores for the charts
\* Days of 2024 and 2025: day 1 is Tuesday 2 January 2024, day 40 Saturday
\* 10 February, day 365 the last day of 2024.
ChartTodays == {5, 10, 100, 400}
ChartCreated == {2, 40}
ChartDeadlines == {None} \cup {Some(d) : d \in {0, 8, 60, 61, 365, 366}}

\* progress entries of the first goal: << user, date, value >>
ChartEntries ==
    {<< "u1", 1, 2 >>, << "u1", 3, 4 >>, << "u1", 5, 6 >>, << "u2", 3, 2 >>,
     << "u1", 45, 4 >>, << "u1", 380, 6 >>}

ChartRow(e) ==
    [pk |-> << e[1], "g1", e[2], 1 >>, user |-> e[1], goal |-> "g1",
     date |-> e[2], value |-> e[3]]

ChartGoal(created, dl) ==
    [user |-> "u1", category |-> Some("c1"), unit |-> Some("n1"),
     is_public |-> TRUE, created_at |-> created, target_value |-> 10,
     deadline |-> dl,
     current_value |-> 0, finished_at |-> None]

InitChart ==
    /\ today \in ChartTodays
    /\ \E created \in ChartCreated, dl \in ChartDeadlines :
          /\ created <= today
          /\ goals = [g \in Goals |->
                        IF g = "g1" THEN ChartGoal(created, dl) ELSE OtherGoal]
    /\ \E E \in SUBSET ChartEntries :
          /\ Cardinality(E) <= MaxEntries
          /\ progress = {ChartRow(e) : e \in E}
    /\ last = NoCall
    /\ req = [r \in Requests |-> Idle]
    /\ photos = {}
    /\ likes = {}
    /\ comments = {}
    /\ categories = {}

goal_get_chart_data(g) ==
    /\ \E pm \in ProgressMaps(g) : last' = ChartCall(g, pm, chart_data(g, pm))
    /\ UNCHANGED << today, goals, progress, req, photos, likes, comments, categories >>

\* The series the goal_detail handler builds itself, day by day whatever the
\* span.  running_total at a day is the sum of progress_map over the days from
\* start_date to that day.
detail_chart_data(g, pm) ==
    LET dates == all_dates(start_date(g), end_date(g))
        upto(d) == {[date |-> x, value |-> pm[x]] :
                       x \in {y \in DOMAIN pm : start_date(g) <= y /\ y <= d}}
    IN  [dates |-> dates,
         values |-> [i \in 1..Len(dates) |->
                       IF dates[i] <= today THEN Some(MapGet(pm, dates[i]))
                       ELSE None],
         cumulative |-> [i \in 1..Len(dates) |->
                           IF dates[i] <= today
                           THEN Some(SumValues(upto(dates[i])))
                           ELSE None],
         target |-> goals[g].target_value,
         avg_per_day |-> avg_per_day(g),
         needed_per_day |-> needed_per_day(g)]

DetailCall(g, pm, outcome, chart) ==
    [op |-> "detail", goal |-> g, progress_map |-> pm, outcome |-> outcome,
     chart |-> chart]

\* goal_detail: after the loop, start_date = all_dates[0] raises IndexError
\* when all_dates is empty, that is when end_date is before start_date
goal_detail(g) ==
    /\ \E pm \in ProgressMaps(g) :
          last' = IF all_dates(start_date(g), end_date(g)) = << >>
                  THEN DetailCall(g, pm, "IndexError", None)
                  ELSE DetailCall(g, pm, "ok", Some(detail_chart_data(g, pm)))
    /\ UNCHANGED << today, goals, progress, req, photos, likes, comments,
                    categories >>

NextChart ==
    \/ \E g \in Goals : goal_get_chart_data(g)
    \/ \E g \in Goals : goal_detail(g)

SpecChart == InitChart /\ [][NextChart]_vars

\* ------------------------------------------------- concurrent request handlers
\* A handler loads the goal, calls progress_create_or_update(user, goal, value)
\* (date = today) and then progress_check_goal_completion on its loaded goal.
\* Every statement that reads or writes the store is one step.

\* goal = Goal.objects.get(id); date = now().date()
ReqStart(r, u, g, v) ==
    /\ req[r].pc = "idle"
    /\ req' = [req EXCEPT ![r] = [Idle EXCEPT !.pc = "get", !.user = u, !.goal = g,
                                  !.value = v, !.date = today,
                                  !.finished_at = goals[g].finished_at]]
    /\ UNCHANGED << today, goals, progress, last, photos, likes, comments, categories >>

\* get_or_create: self.get(**kwargs)
ReqGet(r) ==
    LET me == req[r]
        found == ProgressLookup(me.user, me.goal, me.date)
    IN  /\ me.pc = "get"
        /\ req' = [req EXCEPT ![r] =
              IF Cardinality(found) > 1
              THEN [me EXCEPT !.pc = "done", !.raised = TRUE]
              ELSE IF found # {}
              THEN [me EXCEPT !.pc = "save", !.pk = Some((CHOOSE p \in found : TRUE).pk)]
              ELSE [me EXCEPT !.pc = "create"]]
        /\ UNCHANGED << today, goals, progress, last, photos, likes, comments, categories >>

\* get_or_create: self.create(**params) inside transaction.atomic()
ReqCreate(r) ==
    LET me == req[r]
    IN  /\ me.pc = "create"
        /\ IF UniqueViolation(me.user, me.goal, me.date)
           THEN /\ progress' = progress
                /\ req' = [req EXCEPT ![r] = [me EXCEPT !.pc = "reget", !.retried = TRUE]]
           ELSE /\ progress' = progress \cup {NewRow(me.user, me.goal, me.date, me.value)}
                /\ req' = [req EXCEPT ![r] =
                      [me EXCEPT !.pc = "check", !.created = TRUE,
                                 !.pk = Some(NewPk(me.user, me.goal, me.date))]]
        /\ UNCHANGED << today, goals, last, photos, likes, comments, categories >>

\* get_or_create: except IntegrityError: self.get(**kwargs), else re-raise
ReqReget(r) ==
    LET me == req[r]
        found == ProgressLookup(me.user, me.goal, me.date)
    IN  /\ me.pc = "reget"
        /\ req' = [req EXCEPT ![r] =
              IF Cardinality(found) = 1
              THEN [me EXCEPT !.pc = "save", !.pk = Some((CHOOSE p \in found : TRUE).pk)]
              ELSE [me EXCEPT !.pc = "done", !.raised = TRUE]]
        /\ UNCHANGED << today, goals, progress, last, photos, likes, comments, categories >>

\* if not created: progress.value = value; progress.save()
ReqSave(r) ==
    LET me == req[r]
    IN  /\ me.pc = "save"
        /\ progress' = SaveValue(Val(me.pk), me.value)
        /\ req' = [req EXCEPT ![r] = [me EXCEPT !.pc = "check"]]
        /\ UNCHANGED << today, goals, last, photos, likes, comments, categories >>

\* progress_check_goal_completion(goal) on the handler's loaded goal
ReqCheck(r) ==
    LET me == req[r]
    IN  /\ me.pc = "check"
        /\ IF goal_is_completed(me.goal) /\ me.finished_at = None
           THEN /\ goals' = [goals EXCEPT ![me.goal].finished_at = Some(today)]
                /\ req' = [req EXCEPT ![r] =
                      [me EXCEPT !.pc = "done", !.ret = TRUE, !.finished_at = Some(today)]]
           ELSE /\ goals' = goals
                /\ req' = [req EXCEPT ![r] = [me EXCEPT !.pc = "done"]]
        /\ UNCHANGED << today, progress, last, photos, likes, comments, categories >>

NextConc ==
    \/ \E r \in Requests, u \in Users, g \in Goals, v \in Values : ReqStart(r, u, g, v)
    \/ \E r \in Requests : ReqGet(r)
    \/ \E r \in Requests : ReqCreate(r)
    \/ \E r \in Requests : ReqReget(r)
    \/ \E r \in Requests : ReqSave(r)
    \/ \E r \in Requests : ReqCheck(r)
    \/ Tick

SpecConc == Init /\ [][NextConc]_vars

\* ===================================================================== claims
RowsOfKey(S, u, g, d) == {p \in S : p.user = u /\ p.goal = g /\ p.date = d}

RowsOfGoal(S, g) == {p \in S : p.goal = g}

OneRowPerKey ==
    \A p, q \in progress :
        (p.user = q.user /\ p.goal = q.goal /\ p.date = q.date) => p = q

\* this step is a call of progress_create_or_update; last' holds its arguments
RecordStep == last'.op = "record" /\ today' = today

\* this step is a call of progress_check_goal_completion on goal last'.goal
CheckStep == last'.op = "check" /\ today' = today

\* C1: the store never holds two Progress rows with the same (user, goal,
\* date), and a progress_create_or_update call whose (user, goal, date) already
\* has a row returns created = False, raises nothing and leaves the number of
\* Progress rows of that goal as it was.
C1_UpdateStep ==
    RecordStep =>
        (RowsOfKey(progress, last'.user, last'.goal, last'.date) # {} =>
            /\ ~last'.created
            /\ ~last'.raised
            /\ Cardinality(RowsOfGoal(progress', last'.goal))
                 = Cardinality(RowsOfGoal(progress, last'.goal)))

C1_OneRowPerDay == []OneRowPerKey /\ [][C1_UpdateStep]_vars

\* a second call for the same (user, goal, date) has returned created = False
C1_Witness ==
    /\ last.op = "record"
    /\ ~last.created
    /\ Cardinality(RowsOfKey(progress, last.user, last.goal, last.date)) = 1
    /\ Cardinality(progress) = 2

\* C2: progress_create_or_update leaves exactly one row for its (user, goal,
\* date), holding exactly the submitted value, changes no other row, and so
\* changes the goal's current value by the submitted value minus the value the
\* day held before (last write wins: no accumulation, no averaging).
C2_RecordStep ==
    RecordStep =>
        LET u == last'.user
            g == last'.goal
            d == last'.date
            v == last'.value
        IN  /\ \E p \in progress' :
                  /\ RowsOfKey(progress', u, g, d) = {p}
                  /\ p.value = v
            /\ progress' \ RowsOfKey(progress', u, g, d)
                 = progress \ RowsOfKey(progress, u, g, d)
            /\ \A g0 \in Goals :
                  get_current_value(g0)' =
                      IF g0 = g
                      THEN get_current_value(g0)
                             - SumValues(RowsOfKey(progress, u, g, d)) + v
                      ELSE get_current_value(g0)

C2_LastWriteWins == [][C2_RecordStep]_vars

\* target 5 with 5 on one day and, on another, a 5 overwritten by -1: that row
\* holds -1, the current value is 4, 80 percent, active
C2_Witness ==
    /\ last.op = "record"
    /\ ~last.created
    /\ last.value = -1
    /\ goals[last.goal].target_value = 5
    /\ Cardinality(progresses(last.goal)) = 2
    /\ \E p \in progresses(last.goal) :
          p.user = last.user /\ p.date = last.date /\ p.value = -1
    /\ get_current_value(last.goal) = 4
    /\ progress_percentage(last.goal) = 80
    /\ status(last.goal) = "active"

\* C3: when request handlers race to record the same (user, goal, date), no
\* exception reaches a caller, the store never holds two rows for the key, and
\* once both calls have returned exactly one of them has created = True and
\* the single row holds one of the two submitted values.
Recorded(r) == req[r].pc \in {"check", "done"}

SameKeyRequests(r1, r2) ==
    /\ req[r1].user = req[r2].user
    /\ req[r1].goal = req[r2].goal
    /\ req[r1].date = req[r2].date

C3_ConcurrentCreate ==
    /\ \A r \in Requests : ~req[r].raised
    /\ OneRowPerKey
    /\ \A r1, r2 \in Requests :
          (r1 # r2 /\ Recorded(r1) /\ Recorded(r2) /\ SameKeyRequests(r1, r2)) =>
              /\ req[r1].created # req[r2].created
              /\ \E p \in progress :
                    /\ RowsOfKey(progress, req[r1].user, req[r1].goal, req[r1].date) = {p}
                    /\ p.value \in {req[r1].value, req[r2].value}

\* both calls found no row, one lost the insert and was handled as an update
C3_Witness ==
    \E r1, r2 \in Requests :
        /\ r1 # r2
        /\ req[r1].pc = "done" /\ req[r2].pc = "done"
        /\ SameKeyRequests(r1, r2)
        /\ req[r1].created /\ ~req[r2].created /\ req[r2].retried
        /\ req[r1].value # req[r2].value

\* C4: for every goal, progress set and date, the goal is completed exactly
\* when the sum of its progress values >= target_value, overdue exactly when a
\* deadline is set, deadline < today and it is not completed, and active
\* otherwise, by Goal.status / is_completed / is_overdue and by
\* goal_is_completed / goal_is_overdue; never completed and overdue at once.
C4_StatusDerivation ==
    \A g \in Goals :
        LET sum == SumValues(RowsOfGoal(progress, g))
            done == sum >= goals[g].target_value
            late == /\ goals[g].deadline # None
                    /\ Val(goals[g].deadline) < today
                    /\ ~done
        IN  /\ is_completed(g) <=> done
            /\ goal_is_completed(g) <=> done
            /\ is_overdue(g) <=> late
            /\ goal_is_overdue(g) <=> late
            /\ status(g) = (IF done THEN "completed"
                            ELSE IF late THEN "overdue" ELSE "active")
            /\ ~(is_completed(g) /\ is_overdue(g))
            /\ ~(goal_is_completed(g) /\ goal_is_overdue(g))

\* deadline yesterday: one goal at sum 5 of 5 is completed, another below
\* its target is overdue
C4_Witness ==
    /\ today = 1
    /\ \E g \in Goals :
          /\ goals[g].deadline = Some(0)
          /\ goals[g].target_value = 5
          /\ get_current_value(g) = 5
          /\ status(g) = "completed"
    /\ \E g \in Goals :
          /\ goals[g].deadline = Some(0)
          /\ goals[g].target_value = 10
          /\ get_current_value(g) = 5
          /\ status(g) = "overdue"

\* C5: for a goal instance loaded from the store, goal_get_status and
\* goal_progress_percentage return the status and percentage derived from the
\* sum of the goal's Progress rows (they agree with Goal.status and
\* Goal.progress_percentage).  Stated for the goals of the claim's examples:
\* a positive target and no negative entry.
PlainGoal(g) ==
    /\ goals[g].target_value > 0
    /\ \A p \in progresses(g) : p.value >= 0

C5_ServicesUseTheSum ==
    \A g \in Goals :
        PlainGoal(g) =>
            /\ goal_get_status(g, LoadedCurrentValue(g)) = status(g)
            /\ goal_progress_percentage(g, LoadedCurrentValue(g))
                 = progress_percentage(g)

\* C6: progress_check_goal_completion returns True and writes finished_at
\* (the current timestamp) only when the goal is completed and finished_at is
\* unset; a call on a goal whose finished_at is set returns False and leaves
\* finished_at as it was.
C6_CheckStep ==
    CheckStep =>
        LET g == last'.goal
        IN  /\ last'.ret =>
                  /\ goal_is_completed(g)
                  /\ goals[g].finished_at = None
                  /\ goals'[g].finished_at = Some(today)
            /\ goals' # goals => last'.ret
            /\ (goal_is_completed(g) /\ goals[g].finished_at = None) => last'.ret
            /\ goals[g].finished_at # None => (~last'.ret /\ goals' = goals)

C6_CompletionCheckIdempotent == [][C6_CheckStep]_vars

\* the check was called again on a later day: False, the first timestamp kept
C6_Witness ==
    /\ last.op = "check"
    /\ ~last.ret
    /\ goal_is_completed(last.goal)
    /\ goals[last.goal].finished_at # None
    /\ Val(goals[last.goal].finished_at) < today

\* C7: once a goal's finished_at is set, no call of progress_create_or_update
\* or progress_check_goal_completion clears or changes it.
C7_LatchStep ==
    \A g \in Goals :
        goals[g].finished_at # None => goals'[g].finished_at = goals[g].finished_at

C7_FinishedAtLatch == [][C7_LatchStep]_vars

\* the sum fell below the target after completion and the check ran again
C7_Witness ==
    /\ last.op = "check"
    /\ goals[last.goal].finished_at # None
    /\ Val(goals[last.goal].finished_at) < today
    /\ ~goal_is_completed(last.goal)

\* C8: for all goals and all stored progress values, Goal.progress_percentage
\* and goal_progress_percentage (on a loaded and on a listed instance) are in
\* the range 0..100.
InRange(x) == 0 <= x /\ x <= 100

C8_PercentageInRange ==
    \A g \in Goals :
        /\ InRange(progress_percentage(g))
        /\ InRange(goal_progress_percentage(g, LoadedCurrentValue(g)))
        /\ InRange(goal_progress_percentage(g, AnnotatedCurrentValue(g)))

\* C9: with target, deadline and progress held fixed, a change of date changes
\* a goal's status only from active to overdue, and only on the first day
\* after the deadline; completed stays completed, overdue stays overdue
\* (also by goal_is_overdue), and a goal with no deadline is never overdue.
C9_DateStep ==
    today' # today =>
        \A g \in Goals :
            /\ \/ status(g)' = status(g)
               \/ /\ status(g) = "active"
                  /\ status(g)' = "overdue"
                  /\ goals[g].deadline = Some(today)
            /\ goal_is_overdue(g) => goal_is_overdue(g)'
            /\ (~goal_is_overdue(g) /\ goal_is_overdue(g)') => goals[g].deadline = Some(today)

C9_NoDeadlineNeverOverdue ==
    \A g \in Goals :
        goals[g].deadline = None =>
            (status(g) # "overdue" /\ ~is_overdue(g) /\ ~goal_is_overdue(g))

C10_DbStatusIsStatus ==
    \A g \in Goals : goals[g].target_value > 0 => db_status(g) = status(g)

\* C11: goal_list_public(status_filter) returns exactly the public goals whose
\* derived status equals the filter (active when left out), never a private
\* goal, each annotated with current_value = the sum of its progress values.
\* Stated for stores whose goals have a positive target.
PositiveTargets == \A g \in Goals : goals[g].target_value > 0

C11_PublicFeed ==
    PositiveTargets =>
        \A f \in StatusLabels :
            /\ goal_list_public(f) =
                  {g \in Goals : goals[g].is_public /\ status(g) = f}
            /\ \A g \in goal_list_public(f) :
                  AnnotatedCurrentValue(g) = Some(get_current_value(g))

\* C12: goal_list_for_user(user) with no filter returns exactly the goals the
\* user owns, and the results for the filters active, completed and overdue
\* are pairwise disjoint and together contain exactly those goals.
OwnedGoals(u) == {g \in Goals : goals[g].user = u}

GoalsIn(u, c) == {g \in Goals : goals[g].user = u /\ goals[g].category = Some(c)}

C13_CategoryStats ==
    PositiveTargets =>
        \A u \in Users :
            /\ DOMAIN dashboard_get_category_stats(u) = Categories
            /\ \A c \in Categories :
                  LET st == dashboard_get_category_stats(u)[c]
                  IN  /\ st.total = Cardinality(GoalsIn(u, c))
                      /\ st.active = Cardinality(
                            {g \in GoalsIn(u, c) : status(g) = "active"})
                      /\ st.completed = Cardinality(
                            {g \in GoalsIn(u, c) : status(g) = "completed"})

\* ------------------------------------------------------------ chart claims
\* goal_get_chart_data has returned last.chart for goal last.goal
ChartReturned == last.op = "chart"

\* the series start: the earliest progress date, else the creation date
SeriesStart(g) ==
    IF RowsOfGoal(progress, g) = {} THEN goals[g].created_at
    ELSE CHOOSE d \in {p.date : p \in RowsOfGoal(progress, g)} :
             \A p \in RowsOfGoal(progress, g) : d <= p.date

\* the series end: the deadline, else today
SeriesEnd(g) ==
    IF goals[g].deadline = None THEN today ELSE Val(goals[g].deadline)

Span(g) == SeriesEnd(g) - SeriesStart(g) + 1

Numbers(seq) == [i \in DOMAIN seq |-> Some(seq[i])]

\* C15 as claimed: for a goal with no deadline, today = day 10 and progress
\* only on days 1, 3 and 5 with values 2, 4 and 6, the daily cumulative series
\* is [2,2,4,4,6,6,6,6,6,6].
ScenarioE ==
    /\ ChartReturned
    /\ today = 10
    /\ goals[last.goal].deadline = None
    /\ Cardinality(RowsOfGoal(progress, last.goal)) = 3
    /\ {<< p.date, p.value >> : p \in RowsOfGoal(progress, last.goal)}
         = {<< 1, 2 >>, << 3, 4 >>, << 5, 6 >>}

C15_CumulativeAsClaimed ==
    ScenarioE =>
        last.chart.cumulative = Numbers(<< 2, 2, 4, 4, 6, 6, 6, 6, 6, 6 >>)

\* C15 (amended): in that scenario the chart is daily over days 1..10, its
\* period values are [2,0,4,0,6,0,0,0,0,0] and its cumulative series is the
\* running total [2,2,6,6,12,12,12,12,12,12].
C15_ScenarioE ==
    ScenarioE =>
        /\ last.chart.grouping = "daily"
        /\ last.chart.dates = << 1, 2, 3, 4, 5, 6, 7, 8, 9, 10 >>
        /\ last.chart.values = Numbers(<< 2, 0, 4, 0, 6, 0, 0, 0, 0, 0 >>)
        /\ last.chart.cumulative
             = Numbers(<< 2, 2, 6, 6, 12, 12, 12, 12, 12, 12 >>)

C15_Witness == ScenarioE /\ Len(last.chart.cumulative) = 10

\* the sum of the non-null entries seq[from..to]
RECURSIVE SumNonNull(_, _, _)
SumNonNull(seq, from, to) ==
    IF from > to THEN 0
    ELSE LET mid == (from + to) \div 2
         IN  SumNonNull(seq, from, mid - 1)
               + (IF seq[mid] = None THEN 0 ELSE Val(seq[mid]))
               + SumNonNull(seq, mid + 1, to)

\* C16: in every chart the sum of all non-null period values equals the last
\* non-null cumulative value, and each non-null cumulative entry equals the
\* sum of the period values of its own bucket and all earlier buckets.
C16_CumulativeIsRunningSum ==
    ChartReturned =>
        LET c == last.chart
            n == Len(c.cumulative)
        IN  /\ \A i \in 1..n :
                  (c.cumulative[i] # None /\
                     \A j \in (i + 1)..n : c.cumulative[j] = None) =>
                      SumNonNull(c.values, 1, Len(c.values))
                        = Val(c.cumulative[i])
            /\ \A i \in 1..n :
                  c.cumulative[i] # None =>
                      Val(c.cumulative[i]) = SumNonNull(c.values, 1, i)

\* a weekly chart with progress in two different weeks and weeks to come
C16_Witness ==
    /\ ChartReturned
    /\ last.chart.grouping = "weekly"
    /\ \E i, j, k \in 1..Len(last.chart.values) :
          /\ i < j /\ j < k
          /\ last.chart.values[i] # None /\ Val(last.chart.values[i]) > 0
          /\ last.chart.values[j] # None /\ Val(last.chart.values[j]) > 0
          /\ last.chart.cumulative[j] # None
          /\ Val(last.chart.cumulative[j]) > Val(last.chart.values[j])
          /\ last.chart.values[k] = None

\* C17: in every chart a bucket's period and cumulative entries are both
\* None exactly when the bucket's start date is after today and both numeric
\* otherwise; the None buckets form a suffix; labels, period and cumulative
\* lists have the same length.
C17_NoValueAfterToday ==
    ChartReturned =>
        LET c == last.chart
            n == Len(c.dates)
        IN  /\ Len(c.values) = n
            /\ Len(c.cumulative) = n
            /\ \A i \in 1..n :
                  /\ c.values[i] = None <=> c.dates[i] > today
                  /\ c.cumulative[i] = None <=> c.dates[i] > today
                  /\ c.values[i] # None => Val(c.values[i]) \in Int
                  /\ c.cumulative[i] # None => Val(c.cumulative[i]) \in Int
            /\ \A i, j \in 1..n :
                  (i < j /\ c.values[i] = None) =>
                      (c.values[j] = None /\ c.cumulative[j] = None)

\* a monthly chart: the month that holds today has values, the next has not
C17_Witness ==
    /\ ChartReturned
    /\ last.chart.grouping = "monthly"
    /\ \E i \in 1..(Len(last.chart.dates) - 1) :
          /\ last.chart.dates[i] < today
          /\ today < last.chart.dates[i + 1]
          /\ last.chart.values[i] # None
          /\ last.chart.values[i + 1] = None

\* the last day of bucket i of a chart whose series ends on day e
BucketEnd(c, i, e) == IF i < Len(c.dates) THEN c.dates[i + 1] - 1 ELSE e

\* C18: the buckets are consecutive and non-overlapping, anchored at the
\* series start day (daily), at the Monday of the week containing it (weekly)
\* or at the first day of the month containing it (monthly), and every
\* progress entry dated between the series start and min(today, series end)
\* is counted in exactly one bucket's period value, nothing dated after today
\* being counted: each period value is the sum of the entries of its bucket
\* that lie in that range.
C18_BucketsPartitionTheEntries ==
    ChartReturned =>
        LET g == last.goal
            c == last.chart
            n == Len(c.dates)
            s == SeriesStart(g)
            e == SeriesEnd(g)
        IN  /\ n = 0 <=> e < s
            /\ n > 0 =>
                  /\ c.grouping = "daily" => c.dates[1] = s
                  /\ c.grouping = "weekly" =>
                        /\ c.dates[1] % 7 = 0
                        /\ c.dates[1] <= s /\ s <= c.dates[1] + 6
                  /\ c.grouping = "monthly" =>
                        /\ c.dates[1] = date(year(c.dates[1]), month(c.dates[1]), 1)
                        /\ c.dates[1] <= s
                        /\ s < c.dates[1]
                                + DaysInMonth(year(c.dates[1]), month(c.dates[1]))
            /\ \A i \in 1..(n - 1) :
                  c.dates[i + 1] =
                      c.dates[i] +
                        (IF c.grouping = "daily" THEN 1
                         ELSE IF c.grouping = "weekly" THEN 7
                         ELSE DaysInMonth(year(c.dates[i]), month(c.dates[i])))
            /\ \A i \in 1..n :
                  c.values[i] # None =>
                      Val(c.values[i]) =
                          SumValues({p \in RowsOfGoal(progress, g) :
                                        /\ c.dates[i] <= p.date
                                        /\ p.date <= BucketEnd(c, i, e)
                                        /\ s <= p.date
                                        /\ p.date <= Min(today, e)})

\* the goals on which no two users recorded progress for the same date
OneEntryPerDate(g) ==
    \A p, q \in RowsOfGoal(progress, g) : p.date = q.date => p = q

C18_SingleRecorder ==
    (ChartReturned /\ ~OneEntryPerDate(last.goal))
        \/ C18_BucketsPartitionTheEntries

\* C19: needed_per_day is max(0, (target - total) / inclusive days remaining)
\* when the goal has a deadline on or after today, the full deficit
\* target - total when the deadline has passed and the target is not reached,
\* and 0 in every other case, which includes every goal without a deadline;
\* it is never negative.
C19_NeededPerDay ==
    ChartReturned =>
        LET g == last.goal
            total == SumValues(RowsOfGoal(progress, g))
            deficit == goals[g].target_value - total
            needed == last.chart.needed_per_day
        IN  /\ needed[2] > 0
            /\ needed[1] >= 0
            /\ IF goals[g].deadline # None /\ Val(goals[g].deadline) >= today
               THEN needed[1] * (Val(goals[g].deadline) - today + 1)
                      = Max(0, deficit) * needed[2]
               ELSE IF goals[g].deadline # None /\ deficit > 0
               THEN needed = << deficit, 1 >>
               ELSE needed = << 0, 1 >>

\* C20: avg_per_day equals the goal's total progress divided by
\* days_elapsed, the inclusive number of days from the series start to
\* min(today, series end), at least 1 for every goal (also when the series
\* end is earlier than the series start): the divisor is never zero or
\* negative.
DaysElapsed(g) == Max(1, Min(today, SeriesEnd(g)) - SeriesStart(g) + 1)

C20_AveragePerDay ==
    ChartReturned =>
        LET g == last.goal
            avg == last.chart.avg_per_day
        IN  /\ days_passed(g) = DaysElapsed(g)
            /\ days_passed(g) >= 1
            /\ avg[2] > 0
            /\ avg[1] * DaysElapsed(g)
                 = SumValues(RowsOfGoal(progress, g)) * avg[2]

\* the series ends before it starts and the average is the whole total; and
\* progress was recorded
C20_Witness ==
    /\ ChartReturned
    /\ SeriesEnd(last.goal) < SeriesStart(last.goal)
    /\ SumValues(RowsOfGoal(progress, last.goal)) > 0
    /\ last.chart.avg_per_day = << SumValues(RowsOfGoal(progress, last.goal)), 1 >>

\* ------------------------------------------------------------------------ C21
\* C21: no stored ProgressPhoto holds a file larger than 5 MB or a file whose
\* content type is not an image type, and the Progress value written by a
\* call is stored whatever the call's files were.
C21_NoInvalidPhoto ==
    /\ \A ph \in photos : ~validate_image(ph)
    /\ (last.op = "record" /\ ~last.raised) =>
          \E p \in progress :
              SameKey(p, last.user, last.goal, last.date) /\ p.value = last.value

\* the second half alone: the value of every call that returned is stored
C21_ValueSaved ==
    (last.op = "record" /\ ~last.raised) =>
        \E p \in progress :
            SameKey(p, last.user, last.goal, last.date) /\ p.value = last.value

\* ------------------------------------------------------------------------ C22
\* the rows of the four tables that reference goal g
Referencing(g, P, Ph, L, C) ==
    {p \in P : p.goal = g}
      \cup {ph \in Ph : \E p \in progress : p.goal = g /\ ph.progress = p.pk}
      \cup {l \in L : l.goal = g} \cup {c \in C : c.goal = g}

C22_DeleteStep ==
    /\ \A g \in DOMAIN goals \ DOMAIN goals' :
          /\ last'.op = "delete" /\ last'.method = "POST" /\ last'.goal = g
          /\ last'.user = goals[g].user
          /\ Referencing(g, progress', photos', likes', comments') = {}
    /\ (/\ last'.op = "delete"
        /\ ~(/\ last'.method = "POST"
              /\ last'.goal \in DOMAIN goals
              /\ goals[last'.goal].user = last'.user))
          => UNCHANGED << goals, progress, photos, likes, comments >>

\* C22: a goal leaves the store only in a POST delete_goal request of its
\* owner, and then no Progress, ProgressPhoto, Like or Comment row of it is
\* left; a delete_goal request of another user, for an unknown id or with
\* another method changes no row.
C22_DeleteByOwnerCascades == [][C22_DeleteStep]_vars

\* the owner deleted a goal that had progress, a photo, a like and a comment,
\* and rows of the other goal are still there
C22_Witness ==
    /\ last.op = "delete" /\ last.outcome = "deleted" /\ last.rows >= 5
    /\ last.goal \notin DOMAIN goals
    /\ likes # {} /\ comments # {}

\* ------------------------------------------------------------------------ C25
\* unique_together (user, goal)
C25_AtMostOneLike ==
    \A l1 \in likes, l2 \in likes :
        (l1.user = l2.user /\ l1.goal = l2.goal) => l1 = l2

Liked(L, u, g) == \E l \in L : l.user = u /\ l.goal = g

C25_LikeStep ==
    (last'.op = "like" /\ last' # last /\ last'.goal \in DOMAIN goals) =>
        /\ Liked(likes', last'.user, last'.goal)
              = ~Liked(likes, last'.user, last'.goal)
        /\ last'.liked = Some(Liked(likes', last'.user, last'.goal))
        /\ last'.likes_count =
              Some(Cardinality({l \in likes' : l.goal = last'.goal}))

\* C25: there is at most one Like row per user and goal, and every like_goal
\* request for a stored goal toggles the requesting user's like and reports
\* liked as whether the like exists afterwards and likes_count as the goal's
\* number of Like rows.
C25_LikeToggles == []C25_AtMostOneLike /\ [][C25_LikeStep]_vars

\* ------------------------------------------------------------------------ C27
\* the goal of the submission was completed and stamped before it
C27_SubmitStep ==
    \A g \in Goals :
        (/\ last'.op = "add_progress" /\ last'.goal = g
         /\ goals[g].target_value > 0
         /\ goals[g].finished_at # None
         /\ is_completed(g))
          => goals'[g].finished_at = goals[g].finished_at

\* C27: an add_progress submission to a goal (of a positive target) that is
\* completed and has finished_at set leaves finished_at as it is.
C27_FinishedAtWrittenOnce == [][C27_SubmitStep]_vars

\* ------------------------------------------------------------------------ C28
\* the requests whose completion check wrote finished_at and returned True
ReportedCompletion(g) == {r \in Requests : req[r].goal = g /\ req[r].ret}

\* C28: of the interleaved requests for one goal (of a positive target) at
\* most one writes finished_at and has its completion check return True.
C28_CompletedOnce ==
    \A g \in Goals :
        goals[g].target_value > 0 => Cardinality(ReportedCompletion(g)) <= 1

\* ------------------------------------------------------------------------ C29
\* the last numeric entry of a cumulative series, None when it has none
LastCumulative(c) ==
    IF \A i \in 1..Len(c.cumulative) : c.cumulative[i] = None THEN None
    ELSE c.cumulative[CHOOSE i \in 1..Len(c.cumulative) :
            /\ c.cumulative[i] # None
            /\ \A j \in (i + 1)..Len(c.cumulative) : c.cumulative[j] = None]

\* every entry of the goal is dated today or earlier
LoggedByToday(g) == \A p \in RowsOfGoal(progress, g) : p.date <= today

\* C29: when a bucket of the chart has started, the last numeric cumulative
\* value goal_get_chart_data returns is the goal's current value, whatever
\* progress entries (none dated after today) are stored.
C29_CumulativeReachesCurrentValue ==
    (ChartReturned /\ LastCumulative(last.chart) # None
                   /\ LoggedByToday(last.goal)) =>
        Val(LastCumulative(last.chart)) = get_current_value(last.goal)

\* the same for the goals all of whose entries lie between the series start
\* and min(today, end), at most one to a date
C29_EntriesInRange ==
    (/\ ChartReturned /\ LastCumulative(last.chart) # None
     /\ OneEntryPerDate(last.goal)
     /\ \A p \in RowsOfGoal(progress, last.goal) :
            p.date <= Min(today, SeriesEnd(last.goal))) =>
        Val(LastCumulative(last.chart)) = get_current_value(last.goal)

\* ------------------------------------------------------------------------ C30
\* the goals whose deadline is before the start of their series
EmptySeries(g) == SeriesEnd(g) < SeriesStart(g)

\* a goal created on or before its deadline, its entries logged by today
StoredGoal(g) ==
    /\ goals[g].deadline # None
    /\ goals[g].created_at <= Val(goals[g].deadline)
    /\ LoggedByToday(g)

\* C30: goal_get_chart_data returns the chart structure and the goal_detail
\* handler its page for every such goal, with an empty series for a goal
\* whose deadline is before its series start.
C30_ChartDataForEveryGoal ==
    /\ (ChartReturned /\ EmptySeries(last.goal)) =>
          /\ last.chart.dates = << >>
          /\ last.chart.values = << >>
          /\ last.chart.cumulative = << >>
    /\ (last.op = "detail" /\ StoredGoal(last.goal)) => last.outcome = "ok"

\* the service alone: an empty daily chart, the pace taken over one day
C30_ServiceReturnsEmptySeries ==
    (ChartReturned /\ EmptySeries(last.goal)) =>
        /\ last.chart.grouping = "daily"
        /\ last.chart.dates = << >>
        /\ last.chart.values = << >>
        /\ last.chart.cumulative = << >>
        /\ last.chart.avg_per_day = << get_current_value(last.goal), 1 >>

\* ------------------------------------------------------------------------ C23
C23_EditStep ==
    \A g \in DOMAIN goals :
        last'.op = "edit" =>
            /\ goals'[g].category = goals[g].category
            /\ goals'[g].unit = goals[g].unit
            /\ last'.user # goals[g].user => goals'[g] = goals[g]

\* C23: no edit_goal request changes the category or the unit of a goal,
\* whatever category and unit it submits, and a request of a user who is not
\* the owner changes no field of the goal.
C23_CategoryAndUnitKept == [][C23_EditStep]_vars

\* the owner's edit that submitted another category and another unit was
\* saved: the target is the submitted one, category and unit are the old ones
C23_Witness ==
    /\ last.op = "edit" /\ last.outcome = "saved"
    /\ last.data.category = Some("c2") /\ last.data.unit = Some("n1")
    /\ goals[last.goal].target_value = Val(last.data.target_value)
    /\ goals[last.goal].category = Some("c1")
    /\ goals[last.goal].unit = Some("n2")

\* ------------------------------------------------------------------------ C24
\* the last request submitted a deadline to a goal form
DeadlineSubmitted ==
    /\ last.op \in {"create", "edit"}
    /\ last.outcome \in {"invalid", "saved", "ValueError"}
    /\ last.data.deadline # None

C24_DeadlineWindow ==
    DeadlineSubmitted =>
        ("deadline" \notin last.errors
            <=> (0 <= Val(last.data.deadline) /\ Val(last.data.deadline) <= 730))

C24_RejectStep ==
    (last'.op \in {"create", "edit"} /\ "deadline" \in last'.errors) =>
        goals' = goals

\* C24: a goal form accepts a submitted deadline exactly when it is today or
\* later and at most 730 days after today; a request whose deadline is
\* rejected creates and changes no goal.
C24_DeadlineAccepted == []C24_DeadlineWindow /\ [][C24_RejectStep]_vars

\* a goal was created with the deadline 730 days from the day of the request
C24_Witness ==
    /\ last.op = "create" /\ last.outcome = "saved"
    /\ last.data.deadline = Some(730)
    /\ goals[last.goal].deadline = Some(last.date + 730)

\* ------------------------------------------------------------------------ C26
C26_SlugsDistinct ==
    \A a \in categories, b \in categories : a.slug = b.slug => a = b

\* base_slug followed by "-" and the number n
Suffixed(base_slug, n) == base_slug \o << "-" >> \o Decimal(n)

\* the step saved a category without a slug: the slugs the other categories
\* had, the slugified name, the saved row
C26_SaveStep ==
    (last'.op = "save" /\ last'.slug = << >>) =>
        LET taken == {c.slug : c \in {x \in categories :
                                         Some(x.pk) # last'.id}}
            base_slug == slugify(last'.cat)
            saved == CHOOSE c \in categories' : Some(c.pk) = last'.id
        IN  /\ last'.outcome = "IntegrityError"
                  => \E c \in categories :
                        Some(c.pk) # last'.id /\ c.cat = last'.cat
            /\ last'.outcome = "saved" =>
                  /\ base_slug \notin taken => saved.slug = base_slug
                  /\ base_slug \in taken =>
                        \E n \in 1 .. Cardinality(taken) :
                            /\ saved.slug = Suffixed(base_slug, n)
                            /\ saved.slug \notin taken
                            /\ \A m \in 1 .. (n - 1) :
                                  Suffixed(base_slug, m) \in taken
            /\ last'.counter <= Cardinality(taken) + 1

\* C26: the slugs of the stored categories are pairwise distinct; a category
\* saved without a slug gets the slugified name, or, when another category
\* has it, the slugified name with the first unused suffix -1, -2, ...; the
\* search ends after at most one try per other category.
C26_UniqueSlugs == []C26_SlugsDistinct /\ [][C26_SaveStep]_vars

\* three categories whose names slugify to "run": run, run-1 is skipped
\* because a category named "Run -1" holds it, and the last one got run-2
C26_Witness ==
    /\ last.op = "save" /\ last.outcome = "saved" /\ last.slug = << >>
    /\ slugify(last.cat) = << "r", "u", "n" >>
    /\ \E a \in categories, b \in categories, c \in categories :
          /\ a.slug = << "r", "u", "n" >>
          /\ b.slug = << "r", "u", "n", "-", "1" >>
          /\ b.cat = << "R", "u", "n", " ", "-", "1" >>
          /\ Some(c.pk) = last.id
          /\ c.slug = << "r", "u", "n", "-", "2" >>
====
